---- MODULE Spec2Model ----
(***************************************************************************)
(* Model of ACPCHandConverter.py.  Spec is the replay of one ACPC hand      *)
(* record into a Poker Stars transcript (create_header, create_actions,    *)
(* award_pot); RunSpec is the loop of main over the lines of the input     *)
(* file, with process_line.                                                *)
(* Python lists are functions over 0..n-1, so that the modular arithmetic  *)
(* of the actor pointer reads as in the source.  output_string is the      *)
(* sequence of the lines appended to it, one record per line.              *)
(***************************************************************************)
EXTENDS Integers, Sequences, FiniteSets, TLC

(* ------------------------------ bounds --------------------------------- *)
\* most characters in the action strings of one hand
MaxChars == 3
\* most lines read from the input file in one run
MaxLines == 3

(* ------------------------------ inputs --------------------------------- *)
GameTypes == {"L", "N"}
BigBlinds == {2, 10}
PlayerCounts == {2, 3}
\* a record holds 1 to 4 action strings
MaxStreets == 4
DigitChars == {"4"}
Alphabet(gt) == IF gt = "L" THEN {"f", "c", "r"} ELSE {"f", "c", "r"} \cup DigitChars
\* the action strings of at most k characters
StreetStrings(gt, k) == UNION {[1..j -> Alphabet(gt)] : j \in 0..k}
\* the heads-up limit fixture: cc/cc/cc/cc at big blind 10
FixtureStreet == <<"c", "c">>
\* the three-handed no-limit fixture: the utg player opens with r200
RaiseFixtureStreet == <<"r", "2", "0", "0", "c">>
HoleCards == <<"AhKs", "QdQc", "7h7d">>

VARIABLES
  game_type,          \* 'L' or 'N'
  big_blind,          \* positive even integer
  players,            \* names of the record, index 0..n-1
  seat_names,         \* seat assignment of the run
  actions_by_round,   \* the street strings replayed so far
  results,            \* sign of each player's recorded net result (read by award_pot)
  positions,          \* role -> player index
  round,              \* index of the street being replayed
  actions_this_round, \* tokens of the street
  actionIndex,        \* index of the next token
  players_in_hand,    \* player has not folded
  wagered_total,      \* per player, over the streets already closed
  wagered_this_round, \* per player, this street
  bet_this_round,     \* street bet level
  current_bet,        \* last bet increment
  current_player,     \* actor pointer
  pot,                \* award_pot: pot, after the uncalled-bet deduction
  half_pot,           \* award_pot: float(pot) / 2 of the undeducted pot
  winners,            \* award_pot: indices with positive result
  final_word,         \* award_pot: per player summary word
  output_string,      \* lines appended so far
  pc,                 \* position in main / create_actions
  hand_counter,       \* main: 1 + the hands written
  hand_history,       \* main: the line read last
  lines_read,         \* main: lines taken from the input file
  output_file,        \* main: the transcripts written
  error               \* the exception that ended the run

\* the variables of the loop of main
run_vars == <<hand_counter, hand_history, lines_read, output_file, error>>

vars == <<game_type, big_blind, players, seat_names,
          actions_by_round, results, positions, round, actions_this_round,
          actionIndex, players_in_hand, wagered_total, wagered_this_round,
          bet_this_round, current_bet, current_player, pot, half_pot,
          winners, final_word, output_string, pc, run_vars>>

(* ------------------------------ helpers -------------------------------- *)
PlayerNames == <<"P1", "P2", "P3">>

\* len(players)
N == Cardinality(DOMAIN players)
Idx == 0 .. (N - 1)

RECURSIVE SumTo(_, _)
\* sum(f[0..k])
SumTo(f, k) == IF k < 0 THEN 0 ELSE f[k] + SumTo(f, k - 1)

\* sum(list) over a list of length n
Sum(f, n) == SumTo(f, n - 1)

\* a printed amount num/den
Amt(num, den) == [num |-> num, den |-> den]

\* one line of output_string
Line(type, player, amt, extra) ==
  [type |-> type, player |-> player, amt |-> amt, extra |-> extra]

NoAmt == Amt(0, 1)

\* str.isdigit() on one character
IsDigit(ch) == ch \in {"0", "1", "2", "3", "4", "5", "6", "7", "8", "9"}

\* int() of one digit character
DigitVal(ch) ==
  CASE ch = "0" -> 0 [] ch = "1" -> 1 [] ch = "2" -> 2 [] ch = "3" -> 3
    [] ch = "4" -> 4 [] ch = "5" -> 5 [] ch = "6" -> 6 [] ch = "7" -> 7
    [] ch = "8" -> 8 [] ch = "9" -> 9

\* the positions with the heads-up blinds not reversed
PositionsFor_NotReversed(n) ==
  IF n = 2
    THEN [utg |-> 0, button |-> 0, sb |-> 0, bb |-> 1]
    ELSE [utg |-> 2, button |-> n - 1, sb |-> 0, bb |-> 1]

\* positions dictionary of create_header
PositionsFor(n) ==
  IF n = 2
    THEN [utg |-> 1, button |-> 1, sb |-> 1, bb |-> 0]
    ELSE [utg |-> 2, button |-> n - 1, sb |-> 0, bb |-> 1]

RECURSIVE ReadDigits(_, _, _)
\* the inner while of the no-limit tokenizer, from 0-based index i;
\* ok = FALSE is the IndexError of reading past the end of the string
ReadDigits(s, i, bet_size) ==
  IF i >= Len(s)
    THEN [ok |-> FALSE, i |-> i, bet_size |-> bet_size]
    ELSE IF IsDigit(s[i + 1])
      THEN ReadDigits(s, i + 1, bet_size * 10 + DigitVal(s[i + 1]))
      ELSE [ok |-> TRUE, i |-> i, bet_size |-> bet_size]

RECURSIVE TokenizeFrom(_, _, _)
\* the outer while of the no-limit tokenizer
TokenizeFrom(s, i, acc) ==
  IF i >= Len(s)
    THEN [ok |-> TRUE, tokens |-> acc]
    ELSE IF s[i + 1] # "r"
      THEN TokenizeFrom(s, i + 1, Append(acc, <<s[i + 1]>>))
      ELSE LET d == ReadDigits(s, i + 1, 0)
           IN IF d.ok
                THEN TokenizeFrom(s, d.i, Append(acc, <<"r", d.bet_size>>))
                ELSE [ok |-> FALSE, tokens |-> acc]

\* actions_this_round of one street string
Tokenize(gt, s) ==
  IF gt = "L"
    THEN [ok |-> TRUE, tokens |-> [k \in 1..Len(s) |-> <<s[k]>>]]
    ELSE TokenizeFrom(s, 0, <<>>)

RECURSIVE CharsOf(_)
\* the characters of a list of street strings
CharsOf(streets) ==
  IF streets = <<>> THEN 0 ELSE Len(Head(streets)) + CharsOf(Tail(streets))

\* the record so far is a prefix of the heads-up limit fixture
OnFixture ==
  /\ game_type = "L" /\ big_blind = 10 /\ N = 2
  /\ \A k \in 1..Len(actions_by_round) : actions_by_round[k] = FixtureStreet

\* the record may open as the three-handed no-limit fixture
OnRaiseFixture == game_type = "N" /\ N = 3 /\ actions_by_round = <<>>

\* the strings the next street of the record may be: any that keeps the
\* record within MaxChars characters, and the next street of a fixture
NextStreets ==
  StreetStrings(game_type, MaxChars - CharsOf(actions_by_round))
  \cup (IF OnFixture THEN {FixtureStreet} ELSE {})
  \cup (IF OnRaiseFixture THEN {RaiseFixtureStreet} ELSE {})

\* the FLOP / TURN / RIVER marker line of a street
StreetMarker(r) == IF r = 0 THEN <<>> ELSE <<Line("street", -1, Amt(r, 1), "")>>

\* the smallest element of a non-empty set of integers
MinOf(S) == CHOOSE x \in S : \A y \in S : x <= y

\* "Seat #i is the button", for the first seat holding the button player
ButtonLine(pl, seats) ==
  LET n == Cardinality(DOMAIN pl)
      S == {i \in 0..(n - 1) : seats[i] = pl[PositionsFor(n).button]}
  IN IF S = {} THEN <<>>
     ELSE <<Line("button", -1, Amt(MinOf(S) + 1, 1), "")>>

\* "Seat i: name", one line per player of the record
SeatLines(pl, seats) ==
  [k \in 1..Cardinality(DOMAIN pl) |->
     Line("seat", -1, Amt(k, 1), seats[k - 1])]

\* the lines create_header puts in the emptied output_string
HeaderLines(pl, seats, bb) ==
  LET n == Cardinality(DOMAIN pl) IN
  ButtonLine(pl, seats) \o SeatLines(pl, seats)
  \o <<Line("posts small blind", PositionsFor(n).sb, Amt(bb \div 2, 1), ""),
       Line("posts big blind", PositionsFor(n).bb, Amt(bb, 1), "")>>
  \o [k \in 1..n |-> Line("dealt", k - 1, NoAmt, HoleCards[k])]

(* ------------------------------- main ---------------------------------- *)
Init ==
  /\ game_type \in GameTypes
  /\ big_blind \in BigBlinds
  /\ \E n \in PlayerCounts : players = [i \in 0..(n - 1) |-> PlayerNames[i + 1]]
  /\ seat_names = players
  /\ actions_by_round = <<>>
  /\ results = <<>>
  /\ positions = <<>>
  /\ round = 0
  /\ actions_this_round = <<>>
  /\ actionIndex = 0
  /\ players_in_hand = [i \in DOMAIN players |-> TRUE]
  /\ wagered_total = [i \in DOMAIN players |-> 0]
  /\ wagered_this_round = [i \in DOMAIN players |-> 0]
  /\ bet_this_round = 0
  /\ current_bet = 0
  /\ current_player = 0
  /\ pot = 0
  /\ half_pot = NoAmt
  /\ winners = <<>>
  /\ final_word = <<>>
  /\ output_string = <<>>
  /\ pc = "header"
  /\ hand_counter = 1
  /\ hand_history = <<>>
  /\ lines_read = 1
  /\ output_file = <<>>
  /\ error = ""

\* create_header: blinds and hole cards
CreateHeader ==
  /\ pc = "header"
  /\ positions' = PositionsFor(N)
  /\ output_string' = HeaderLines(players, seat_names, big_blind)
  /\ pc' = "street"
  /\ UNCHANGED <<run_vars, game_type, big_blind, players, seat_names,
                 actions_by_round, results, round,
                 actions_this_round, actionIndex, players_in_hand,
                 wagered_total, wagered_this_round, bet_this_round,
                 current_bet, current_player, pot, half_pot, winners,
                 final_word>>

\* wagered_this_round after the street setup
SeedBlinds(r) ==
  IF r = 0
    THEN [i \in Idx |->
            (IF i = positions.sb THEN big_blind \div 2 ELSE 0)
            + (IF i = positions.bb THEN big_blind ELSE 0)]
    ELSE [i \in Idx |-> 0]

\* startingPlayer of a street, every street opened by the utg player
StartingPlayer_AlwaysUtg(r) == positions.utg

\* startingPlayer of a street
StartingPlayer(r) ==
  IF r = 0 THEN positions.utg
  ELSE IF N = 2 THEN positions.bb ELSE positions.sb

\* current_bet after the street setup, never doubled in limit play
DefaultBet_NeverDoubled(r) ==
  IF game_type = "L" THEN big_blind
  ELSE (IF r = 0 THEN big_blind ELSE 0)

\* current_bet after the street setup
DefaultBet(r) ==
  IF game_type = "L"
    THEN (IF r = 0 \/ r = 1 THEN big_blind ELSE big_blind * 2)
    ELSE (IF r = 0 THEN big_blind ELSE 0)

\* one pass of the loop over rounds up to the loop over the tokens
BeginStreet ==
  /\ pc = "street"
  /\ round < MaxStreets
  /\ \E s \in NextStreets :
       LET tok == Tokenize(game_type, s) IN
       /\ tok.ok
       /\ actions_by_round' = Append(actions_by_round, s)
       /\ actions_this_round' = tok.tokens
  /\ output_string' = output_string \o StreetMarker(round)
  /\ wagered_this_round' = SeedBlinds(round)
  /\ bet_this_round' = (IF round = 0 THEN big_blind ELSE 0)
  /\ current_bet' = DefaultBet(round)
  /\ current_player' = StartingPlayer(round)
  /\ actionIndex' = 0
  /\ pc' = "for"
  /\ UNCHANGED <<run_vars, game_type, big_blind, players, seat_names,
                 results, positions, round, players_in_hand, wagered_total,
                 pot, half_pot, winners, final_word>>

\* the tokenizer reads past the end of the street string: IndexError
TokenizeCrash ==
  /\ pc = "street"
  /\ round < MaxStreets
  /\ \E s \in NextStreets :
       /\ ~Tokenize(game_type, s).ok
       /\ actions_by_round' = Append(actions_by_round, s)
  /\ output_string' = output_string \o StreetMarker(round)
  /\ pc' = "crashed"
  /\ UNCHANGED <<run_vars, game_type, big_blind, players, seat_names,
                 results, positions, round, actions_this_round, actionIndex,
                 players_in_hand, wagered_total, wagered_this_round,
                 bet_this_round, current_bet, current_player, pot, half_pot,
                 winners, final_word>>

(* --------------------------- create_actions ---------------------------- *)
\* the token at the head of the loop over the tokens
Token == actions_this_round[actionIndex + 1]

\* a token is to be executed, wherever the actor pointer is
AtToken_NoSeek(letters) ==
  /\ pc = "for"
  /\ actionIndex < Len(actions_this_round)
  /\ Token[1] \in letters

\* a token is to be executed and the actor pointer is on an unfolded player
AtToken(letters) ==
  /\ pc = "for"
  /\ actionIndex < Len(actions_this_round)
  /\ players_in_hand[current_player]
  /\ Token[1] \in letters

\* amountToCall taken to be the whole bet level
amountToCall_BetLevel == bet_this_round

amountToCall == bet_this_round - wagered_this_round[current_player]

\* "move to next player" and the test of the while loop that follows it
Advance(in_hand) ==
  /\ actionIndex' = actionIndex + 1
  /\ current_player' = (current_player + 1) % N
  /\ pc' = IF in_hand[(current_player + 1) % N] THEN "for" ELSE "next"

\* one turn of "while not players_in_hand[current_player]" before a token
SeekActor ==
  /\ pc = "for"
  /\ actionIndex < Len(actions_this_round)
  /\ ~players_in_hand[current_player]
  /\ current_player' = (current_player + 1) % N
  /\ UNCHANGED <<run_vars, game_type, big_blind, players, seat_names,
                 actions_by_round, results, positions, round,
                 actions_this_round, actionIndex, players_in_hand,
                 wagered_total, wagered_this_round, bet_this_round,
                 current_bet, pot, half_pot, winners, final_word,
                 output_string, pc>>

\* one turn of "while not players_in_hand[current_player]" after a token
SkipFolded ==
  /\ pc = "next"
  /\ ~players_in_hand[current_player]
  /\ current_player' = (current_player + 1) % N
  /\ pc' = IF players_in_hand[(current_player + 1) % N] THEN "for" ELSE "next"
  /\ UNCHANGED <<run_vars, game_type, big_blind, players, seat_names,
                 actions_by_round, results, positions, round,
                 actions_this_round, actionIndex, players_in_hand,
                 wagered_total, wagered_this_round, bet_this_round,
                 current_bet, pot, half_pot, winners, final_word,
                 output_string>>

\* players_in_hand[p] = False, forgotten
MarkFolded_Forgotten(in_hand, p) == in_hand

\* players_in_hand[p] = False
MarkFolded(in_hand, p) == [in_hand EXCEPT ![p] = FALSE]

\* action == 'f'
Fold ==
  /\ AtToken({"f"})
  /\ players_in_hand' = MarkFolded(players_in_hand, current_player)
  /\ output_string' = Append(output_string,
                             Line("folds", current_player, NoAmt, ""))
  /\ Advance(players_in_hand')
  /\ UNCHANGED <<run_vars, game_type, big_blind, players, seat_names,
                 actions_by_round, results, positions, round,
                 actions_this_round, wagered_total, wagered_this_round,
                 bet_this_round, current_bet, pot, half_pot, winners,
                 final_word>>

\* action == 'c': check or call
CheckOrCall ==
  /\ AtToken({"c"})
  /\ IF amountToCall = 0
       THEN /\ output_string' = Append(output_string,
                                  Line("checks", current_player, NoAmt, ""))
            /\ UNCHANGED wagered_this_round
       ELSE /\ wagered_this_round' =
                 [wagered_this_round EXCEPT ![current_player] = @ + amountToCall]
            /\ output_string' = Append(output_string,
                 Line("calls", current_player, Amt(amountToCall, 1), ""))
  /\ Advance(players_in_hand)
  /\ UNCHANGED <<run_vars, game_type, big_blind, players, seat_names,
                 actions_by_round, results, positions, round,
                 actions_this_round, players_in_hand, wagered_total,
                 bet_this_round, current_bet, pot, half_pot, winners,
                 final_word>>

\* current_bet of a bet or raise, the no-limit size read as the increment
RaiseIncrement_AsIncrement ==
  IF game_type = "N" THEN Token[2] ELSE current_bet

\* current_bet of a bet or raise
RaiseIncrement ==
  IF game_type = "N"
    THEN Token[2] - wagered_total[current_player]
         - wagered_this_round[current_player] - amountToCall
    ELSE current_bet

\* the 'r' is printed as a raise only when something is owed
IsRaise_OwedOnly == amountToCall > 0

\* "normal raise or preflop big blind option raise"
IsRaise == amountToCall > 0 \/ round = 0

\* action == 'r': bet or raise
BetOrRaise ==
  /\ AtToken({"r"})
  /\ current_bet' = RaiseIncrement
  /\ wagered_this_round' =
       [wagered_this_round EXCEPT ![current_player] = @ + amountToCall + current_bet']
  /\ bet_this_round' = bet_this_round + current_bet'
  /\ output_string' = Append(output_string,
       IF IsRaise
         THEN Line("raises", current_player,
                   Amt(amountToCall + current_bet', 1), bet_this_round')
         ELSE Line("bets", current_player, Amt(current_bet', 1), ""))
  /\ Advance(players_in_hand)
  /\ UNCHANGED <<run_vars, game_type, big_blind, players, seat_names,
                 actions_by_round, results, positions, round,
                 actions_this_round, players_in_hand, wagered_total, pot,
                 half_pot, winners, final_word>>

\* a token that is none of 'f', 'c', 'r': no branch is taken
OtherToken ==
  /\ AtToken(DigitChars)
  /\ Advance(players_in_hand)
  /\ UNCHANGED <<run_vars, game_type, big_blind, players, seat_names,
                 actions_by_round, results, positions, round,
                 actions_this_round, players_in_hand, wagered_total,
                 wagered_this_round, bet_this_round, current_bet, pot,
                 half_pot, winners, final_word, output_string>>

\* wagered_total[i] = wagered_this_round[i], the street overwriting the total
Accumulate_Overwrite(total, street) == street

\* wagered_total[i] += wagered_this_round[i], for every player
Accumulate(total, street) == [i \in Idx |-> total[i] + street[i]]

\* the loop over the tokens is exhausted: close the street
EndStreet ==
  /\ pc = "for"
  /\ actionIndex = Len(actions_this_round)
  /\ wagered_total' = Accumulate(wagered_total, wagered_this_round)
  /\ round' = round + 1
  /\ pc' = "street"
  /\ UNCHANGED <<run_vars, game_type, big_blind, players, seat_names,
                 actions_by_round, results, positions, actions_this_round,
                 actionIndex, players_in_hand, wagered_this_round,
                 bet_this_round, current_bet, current_player, pot, half_pot,
                 winners, final_word, output_string>>

(* ------------------------------ award_pot ------------------------------ *)
\* the result signs a record may carry: some gain exactly when some lose
ResultSigns ==
  {res \in [Idx -> {-1, 0, 1}] :
     (\E i \in Idx : res[i] > 0) <=> (\E i \in Idx : res[i] < 0)}

\* round(x / d) of Python 3: to the nearest integer, ties to the even one
RoundHalfEven(x, d) ==
  LET q == x \div d
      r == x % d
  IN IF 2 * r < d THEN q
     ELSE IF 2 * r > d THEN q + 1
     ELSE IF q % 2 = 0 THEN q ELSE q + 1

\* round(a, 2): to the nearest hundredth
RoundCents(a) == Amt(RoundHalfEven(a.num * 100, a.den), 100)

\* round(a): to the nearest integer
RoundUnits(a) == Amt(RoundHalfEven(a.num, a.den), 1)

\* sum(players_in_hand)
PlayersLeft == Cardinality({i \in Idx : players_in_hand[i]})

\* the indices with float(results[i]) > 0, in index order
WinnersOf(res) == SelectSeq([k \in 1..N |-> k - 1], LAMBDA i : res[i] > 0)

\* the listing taken from the first player of the record
ShowdownOrder_FromFirst == [k \in 1..N |-> k - 1]

\* the indices (current_player + i) % len(players), i = 0, 1, ...
ShowdownOrder == [k \in 1..N |-> (current_player + (k - 1)) % N]

\* the lines of the SHOW DOWN block
ShowdownLines ==
  LET order == ShowdownOrder
      shown == SelectSeq(order, LAMBDA j : players_in_hand[j])
  IN [k \in 1..Len(shown) |-> Line("shows", shown[k], NoAmt, HoleCards[shown[k] + 1])]

\* the "collected" lines of a showdown, two winners each taking the whole pot
ShowdownCollected_NoSplit(w, pot0) ==
  IF Len(w) = 1 THEN <<Line("collected", w[1], Amt(pot0, 1), "")>>
  ELSE IF Len(w) = 2
    THEN [k \in 1..2 |-> Line("collected", w[k], Amt(pot0, 1), "")]
  ELSE IF PlayersLeft = 3
    THEN [k \in 1..N |-> Line("collected", k - 1, Amt(pot0, 3), "")]
  ELSE <<Line("collected", positions.sb, RoundCents(Amt(pot0, 2)), ""),
         Line("collected", positions.bb, RoundCents(Amt(pot0, 2)), "")>>

\* the "collected" lines of a showdown
ShowdownCollected(w, pot0) ==
  IF Len(w) = 1 THEN <<Line("collected", w[1], Amt(pot0, 1), "")>>
  ELSE IF Len(w) = 2
    THEN [k \in 1..2 |-> Line("collected", w[k], RoundCents(Amt(pot0, 2)), "")]
  ELSE IF PlayersLeft = 3
    THEN [k \in 1..N |-> Line("collected", k - 1, Amt(pot0, 3), "")]
  ELSE <<Line("collected", positions.sb, RoundCents(Amt(pot0, 2)), ""),
         Line("collected", positions.bb, RoundCents(Amt(pot0, 2)), "")>>

\* the lines of an uncontested hand
UncontestedLines(w, pot0) ==
  <<Line("uncalled", w[1], Amt(current_bet, 1), ""),
    Line("collected", w[1], Amt(pot0 - current_bet, 1), "")>>

Mucked == [kind |-> "mucked", amt |-> NoAmt]
Won(a) == [kind |-> "won", amt |-> a]

\* final_word, from the winners, the pot as deducted and the undeducted pot
FinalWord(w, p, pot0) ==
  [i \in Idx |->
     IF Len(w) = 1 THEN (IF i = w[1] THEN Won(Amt(p, 1)) ELSE Mucked)
     ELSE IF Len(w) = 2
       THEN (IF i \in {w[1], w[2]} THEN Won(RoundUnits(Amt(pot0, 2))) ELSE Mucked)
     ELSE IF PlayersLeft = 3 THEN Won(Amt(pot0, 3))
     ELSE IF i \in {positions.sb, positions.bb}
       THEN Won(RoundCents(Amt(pot0, 2)))
       ELSE Mucked]

\* the keys of the positions dictionary, in insertion order
PositionNames == <<"utg", "button", "small blind", "big blind">>

PositionValue(name) ==
  CASE name = "utg" -> positions.utg
    [] name = "button" -> positions.button
    [] name = "small blind" -> positions.sb
    [] name = "big blind" -> positions.bb

\* the position names a summary line may carry
SummaryNames ==
  IF N = 2 THEN {"small blind", "big blind"}
  ELSE {"small blind", "big blind", "button"}

\* the SUMMARY block: seat i, player j, position name, in loop order
SummaryLines(p, fw) ==
  LET np == Len(PositionNames)
      triple(k) == [i |-> (k - 1) \div (N * np),
                    j |-> ((k - 1) \div np) % N,
                    name |-> PositionNames[((k - 1) % np) + 1]]
      hits == SelectSeq([k \in 1..(N * N * np) |-> k], LAMBDA k :
                /\ PositionNames[((k - 1) % np) + 1] \in SummaryNames
                /\ PositionValue(PositionNames[((k - 1) % np) + 1])
                     = ((k - 1) \div np) % N
                /\ seat_names[(k - 1) \div (N * np)]
                     = players[((k - 1) \div np) % N])
      kept == [h \in 1..Len(hits) |-> triple(hits[h])]
  IN <<Line("total pot", -1, Amt(p, 1), "")>>
     \o [k \in 1..Len(kept) |->
           Line("summary", kept[k].j, fw[kept[k].j].amt,
                <<kept[k].i + 1, kept[k].name, fw[kept[k].j].kind>>)]

\* the loop over the rounds is exhausted: the record holds no further street
RecordEnds == pc = "street" /\ round >= 1

\* award_pot, and the write of the transcript that follows it
AwardPot ==
  /\ RecordEnds
  /\ \E res \in ResultSigns :
       LET w == WinnersOf(res)
           pot0 == Sum(wagered_total, N)
           p == IF PlayersLeft > 1 THEN pot0 ELSE pot0 - current_bet
           fw == FinalWord(w, p, pot0)
       IN /\ PlayersLeft > 1 \/ Len(w) > 0
          /\ results' = res
          /\ winners' = w
          /\ half_pot' = Amt(pot0, 2)
          /\ pot' = p
          /\ final_word' = fw
          /\ output_string' =
               output_string
               \o (IF PlayersLeft > 1
                     THEN ShowdownLines \o ShowdownCollected(w, pot0)
                     ELSE UncontestedLines(w, pot0))
               \o SummaryLines(p, fw)
  /\ pc' = "done"
  /\ UNCHANGED <<run_vars, game_type, big_blind, players, seat_names,
                 actions_by_round, positions, round, actions_this_round,
                 actionIndex, players_in_hand, wagered_total,
                 wagered_this_round, bet_this_round, current_bet,
                 current_player>>

\* an uncontested hand whose results name no winner: winners[0] is an
\* IndexError, after the pot was deducted and before anything is appended
AwardCrash ==
  /\ RecordEnds
  /\ PlayersLeft <= 1
  /\ \E res \in ResultSigns :
       /\ Len(WinnersOf(res)) = 0
       /\ results' = res
       /\ winners' = WinnersOf(res)
  /\ half_pot' = Amt(Sum(wagered_total, N), 2)
  /\ pot' = Sum(wagered_total, N) - current_bet
  /\ pc' = "crashed"
  /\ UNCHANGED <<run_vars, game_type, big_blind, players, seat_names,
                 actions_by_round, positions, round, actions_this_round,
                 actionIndex, players_in_hand, wagered_total,
                 wagered_this_round, bet_this_round, current_bet,
                 current_player, final_word, output_string>>

Next ==
  \/ CreateHeader
  \/ BeginStreet
  \/ TokenizeCrash
  \/ SeekActor
  \/ Fold
  \/ CheckOrCall
  \/ BetOrRaise
  \/ OtherToken
  \/ SkipFolded
  \/ EndStreet
  \/ AwardPot
  \/ AwardCrash

Spec == Init /\ [][Next]_vars

\* the interpreter always takes the next step of the running program
FairSpec == Spec /\ WF_vars(Next)

(* --------------------------- the loop of main -------------------------- *)
\* "if hand_counter == 10000"
RecordCeiling == 10000

\* a line of the input file, by what main and process_line look at: whether
\* it begins with STATE, the number of ':'-fields, the names, the number of
\* results, of '/'-separated action strings, of '|'-groups in the card
\* field and of board groups after the last hole cards
LineOf(state, fields, names, nresults, nstreets, ngroups, nboards) ==
  [state |-> state, fields |-> fields, names |-> names, results |-> nresults,
   streets |-> nstreets, groups |-> ngroups, boards |-> nboards]

\* a header, comment or blank line
CommentLine == LineOf(FALSE, 1, <<>>, 0, 0, 0, 0)

NameLists ==
  {<<"P1">>, <<"P1", "P2">>, <<"P2", "P1">>, <<"P1", "P2", "P3">>,
   <<"P1", "P2", "P3", "P4">>}

\* the lines an input file may hold
Lines ==
  {CommentLine}
  \cup {LineOf(TRUE, f, <<>>, 0, 0, 0, 0) : f \in {5, 7}}
  \cup {LineOf(TRUE, 6, nm, nr, ns, ng, nb) :
          nm \in NameLists, nr \in {2, 3}, ns \in {1, 5},
          ng \in {1, 2, 3}, nb \in {0, 1}}

\* a Python list of the elements of a tuple
AsList(seq) == [i \in 0..(Len(seq) - 1) |-> seq[i + 1]]

\* process_line without the test of the number of fields
process_line_FieldsUnchecked(line) ==
  IF Len(line.names) > 3 \/ Len(line.names) < 2 THEN "UnsupportedPlayerCount"
  ELSE IF line.results # Len(line.names) THEN "InconsistentResults"
  ELSE IF line.streets < 1 \/ line.streets > 4 THEN "InvalidStreetCount"
  ELSE IF line.groups < Len(line.names) THEN "IndexError"
  ELSE IF line.streets # line.boards + 1 THEN "InconsistentStreets"
  ELSE "none"

\* process_line: the exception it raises, or "none" when it returns
process_line(line) ==
  IF line.fields # 6 THEN "MalformedRecord"
  ELSE IF Len(line.names) > 3 \/ Len(line.names) < 2 THEN "UnsupportedPlayerCount"
  ELSE IF line.results # Len(line.names) THEN "InconsistentResults"
  ELSE IF line.streets < 1 \/ line.streets > 4 THEN "InvalidStreetCount"
  ELSE IF line.groups < Len(line.names) THEN "IndexError"
  ELSE IF line.streets # line.boards + 1 THEN "InconsistentStreets"
  ELSE "none"

\* seat_names taken from the players of every hand
SeatsFor_EveryHand(hc, seats, pl) == pl

\* "use first hand to decide seat assignments"
SeatsFor(hc, seats, pl) == IF hc = 1 THEN pl ELSE seats

\* the run from its start, or from the point where all but two of the
\* hands the ceiling allows are written; output_file holds the transcripts
\* written from that point on
RunInit ==
  /\ game_type \in GameTypes
  /\ big_blind \in BigBlinds
  /\ \/ hand_counter = 1 /\ seat_names = <<>>
     \/ /\ hand_counter = RecordCeiling - 2
        /\ seat_names \in {AsList(<<"P1", "P2">>), AsList(<<"P1", "P2", "P3">>)}
  /\ players = <<>>
  /\ actions_by_round = <<>>
  /\ results = <<>>
  /\ positions = <<>>
  /\ round = 0
  /\ actions_this_round = <<>>
  /\ actionIndex = 0
  /\ players_in_hand = <<>>
  /\ wagered_total = <<>>
  /\ wagered_this_round = <<>>
  /\ bet_this_round = 0
  /\ current_bet = 0
  /\ current_player = 0
  /\ pot = 0
  /\ half_pot = NoAmt
  /\ winners = <<>>
  /\ final_word = <<>>
  /\ output_string = <<>>
  /\ pc = "loop"
  /\ hand_history = <<>>
  /\ lines_read = 0
  /\ output_file = <<>>
  /\ error = ""

\* the variables of the replay that the loop of main leaves to the callees
replay_vars ==
  <<game_type, big_blind, actions_by_round, results, positions, round,
    actions_this_round, actionIndex, players_in_hand, wagered_total,
    wagered_this_round, bet_this_round, current_bet, current_player, pot,
    half_pot, winners, final_word>>

\* "for line in input_file": the next line
FetchLine ==
  /\ pc = "loop"
  /\ lines_read < MaxLines
  /\ hand_history' \in Lines
  /\ lines_read' = lines_read + 1
  /\ pc' = "fetched"
  /\ UNCHANGED <<replay_vars, players, seat_names, output_string,
                 hand_counter, output_file, error>>

\* "for line in input_file": the file is exhausted
EndOfInput ==
  /\ pc = "loop"
  /\ pc' = "finished"
  /\ UNCHANGED <<replay_vars, players, seat_names, output_string, run_vars>>

\* "if hand_counter == 10000: raise"
CeilingAbort ==
  /\ pc = "fetched"
  /\ hand_counter = RecordCeiling
  /\ pc' = "aborted"
  /\ error' = "RecordCountExceeded"
  /\ UNCHANGED <<replay_vars, players, seat_names, output_string,
                 hand_counter, hand_history, lines_read, output_file>>

\* the line does not begin with STATE: continue
SkipLine ==
  /\ pc = "fetched"
  /\ hand_counter # RecordCeiling
  /\ ~hand_history.state
  /\ pc' = "loop"
  /\ UNCHANGED <<replay_vars, players, seat_names, output_string, run_vars>>

\* process_line raises
RejectLine ==
  /\ pc = "fetched"
  /\ hand_counter # RecordCeiling
  /\ hand_history.state
  /\ process_line(hand_history) # "none"
  /\ pc' = "aborted"
  /\ error' = process_line(hand_history)
  /\ UNCHANGED <<replay_vars, players, seat_names, output_string,
                 hand_counter, hand_history, lines_read, output_file>>

\* process_line returns the record of the line
Parsed ==
  /\ pc = "fetched"
  /\ hand_counter # RecordCeiling
  /\ hand_history.state
  /\ process_line(hand_history) = "none"
  /\ players' = AsList(hand_history.names)
  /\ seat_names' = SeatsFor(hand_counter, seat_names, players')

\* the record has more players than the run has seats: seat_names[i] in
\* create_header is an IndexError
HeaderCrash ==
  /\ Parsed
  /\ Len(hand_history.names) > Cardinality(DOMAIN seat_names')
  /\ pc' = "aborted"
  /\ error' = "IndexError"
  /\ UNCHANGED <<replay_vars, output_string, hand_counter, hand_history,
                 lines_read, output_file>>

\* create_actions or award_pot raises (TokenizeCrash, AwardCrash): the
\* header is in output_string and nothing is written
ReplayCrash ==
  /\ Parsed
  /\ Len(hand_history.names) <= Cardinality(DOMAIN seat_names')
  /\ output_string' = HeaderLines(players', seat_names', big_blind)
  /\ pc' = "aborted"
  /\ error' = "IndexError"
  /\ UNCHANGED <<replay_vars, hand_counter, hand_history, lines_read,
                 output_file>>

\* the hand is replayed and its transcript written; of the transcript the
\* run keeps the lines of create_header, the rest being the lines of Spec
ConvertHand ==
  /\ Parsed
  /\ Len(hand_history.names) <= Cardinality(DOMAIN seat_names')
  /\ output_string' = HeaderLines(players', seat_names', big_blind)
  /\ output_file' = Append(output_file, output_string')
  /\ hand_counter' = hand_counter + 1
  /\ pc' = "loop"
  /\ UNCHANGED <<replay_vars, hand_history, lines_read, error>>

RunNext ==
  \/ FetchLine
  \/ EndOfInput
  \/ CeilingAbort
  \/ SkipLine
  \/ RejectLine
  \/ HeaderCrash
  \/ ReplayCrash
  \/ ConvertHand

RunSpec == RunInit /\ [][RunNext]_vars

(* ------------------------------- claims -------------------------------- *)
\* the lines of a type among types, in order
LinesOf(types) == SelectSeq(output_string, LAMBDA l : l.type \in types)

RECURSIVE SumAmounts(_)
\* the sum of the (integer) amounts of a list of lines
SumAmounts(lines) ==
  IF lines = <<>> THEN 0 ELSE Head(lines).amt.num + SumAmounts(Tail(lines))

\* the lines by which a player puts money in the pot
WagerTypes == {"posts small blind", "posts big blind", "calls", "raises", "bets"}

\* what the transcript says player i put in the pot
ContributedBy(i) ==
  SumAmounts(SelectSeq(output_string,
                       LAMBDA l : l.player = i /\ l.type \in WagerTypes))

\* the players who have not folded
Unfolded == {i \in Idx : players_in_hand[i]}

\* the pot of award_pot before the uncalled-bet deduction
PotBefore == half_pot.num

RECURSIVE LevelsRise(_, _)
\* every call is of a positive amount and every bet and raise lifts the
\* bet level of its street, which starts at level
LevelsRise(lines, level) ==
  IF lines = <<>> THEN TRUE
  ELSE LET l == Head(lines) IN
    CASE l.type = "street" -> LevelsRise(Tail(lines), 0)
      [] l.type = "calls" -> l.amt.num > 0 /\ LevelsRise(Tail(lines), level)
      [] l.type = "bets" ->
           l.amt.num > 0 /\ LevelsRise(Tail(lines), level + l.amt.num)
      [] l.type = "raises" ->
           l.extra > level /\ LevelsRise(Tail(lines), l.extra)
      [] OTHER -> LevelsRise(Tail(lines), level)

\* a valid record: no call of nothing or less, no raise to a level at or
\* below the one it raises
ValidWagers == LevelsRise(output_string, big_blind)

\* C1: when the replay of a valid record completes, the pot of award_pot
\* before the uncalled-bet deduction is the sum of the players' final
\* wagered totals, and each total is what that player posted, called, bet
\* and raised over all the streets.
C1_PotIsSumOfWagers ==
  (pc = "done" /\ ValidWagers) =>
    /\ PotBefore = SumAmounts(LinesOf(WagerTypes))
    /\ \A i \in Idx : wagered_total[i] = ContributedBy(i)
    /\ PotBefore = Sum(wagered_total, N)

\* a completed three-street hand with a raise and a call
C1_Witness ==
  /\ pc = "done"
  /\ ValidWagers
  /\ Len(actions_by_round) >= 3
  /\ LinesOf({"raises"}) # <<>>
  /\ LinesOf({"calls"}) # <<>>

\* C4: the Fold lines and the players still unfolded add up to the number
\* of players, at the end of every completed replay.
C4_FoldsPlusUnfolded ==
  pc = "done" => Len(LinesOf({"folds"})) + PlayersLeft = N

\* a completed three-player hand in which two players folded
C4_Witness ==
  /\ pc = "done"
  /\ N = 3
  /\ Len(LinesOf({"folds"})) = 2

\* the players of the SHOW DOWN block, in the order listed
Shown == [k \in 1..Len(LinesOf({"shows"})) |-> LinesOf({"shows"})[k].player]

\* distance from the actor pointer in wrap-around seat order
FromPointer(j) == (j - current_player + N) % N

\* C9: at a showdown the listing holds each unfolded player exactly once
\* and no folded player, in wrap-around seat order from the actor pointer
\* left by the last street.
C9_ShowdownOrder ==
  (pc = "done" /\ PlayersLeft > 1) =>
    /\ {Shown[k] : k \in 1..Len(Shown)} = Unfolded
    /\ Len(Shown) = PlayersLeft
    /\ \A k \in 1..(Len(Shown) - 1) :
         FromPointer(Shown[k]) < FromPointer(Shown[k + 1])

\* a showdown of two of three players with the pointer not on player 0
C9_Witness ==
  /\ pc = "done"
  /\ N = 3
  /\ PlayersLeft = 2
  /\ current_player # 0
  /\ Len(Shown) = 2

\* the sign of an integer
Sign(x) == IF x > 0 THEN 1 ELSE IF x < 0 THEN -1 ELSE 0

\* the recorded results are those of the replayed hand when the players of
\* W share the pot evenly
ResultsReflect(W) ==
  \A i \in Idx :
    results[i] = Sign((IF i \in W THEN PotBefore ELSE 0)
                      - Cardinality(W) * wagered_total[i])

\* the unfolded players have all wagered the same total
BetsMatched == \A i, j \in Unfolded : wagered_total[i] = wagered_total[j]

\* C2: once every player has folded, the replay stops with a fatal error.
C2_Original == (PlayersLeft = 0) ~> (pc = "crashed")

\* the largest element of a non-empty set of integers
MaxOf(S) == CHOOSE x \in S : \A y \in S : y <= x

\* the part of the last player's final-street contribution nobody matched
UnmatchedPart ==
  LET u == CHOOSE i \in Unfolded : TRUE
  IN wagered_this_round[u] - MaxOf({wagered_this_round[j] : j \in Idx \ {u}})

\* C3: in an uncontested hand the uncalled-bet return is the part of the
\* last player's final-street contribution that no other player matched,
\* and the awarded pot is the whole pot less that part (stated for valid
\* records whose results are those of the replayed hand).
C3_Original ==
  (pc = "done" /\ PlayersLeft = 1 /\ ValidWagers /\ ResultsReflect(Unfolded)) =>
    /\ \A k \in 1..Len(LinesOf({"uncalled"})) :
         LinesOf({"uncalled"})[k].amt.num = UnmatchedPart
    /\ pot = PotBefore - UnmatchedPart

\* a no-limit street string with an 'r' that no digit follows
MalformedRaise(s) ==
  \E k \in 1..Len(s) : s[k] = "r" /\ (k = Len(s) \/ ~IsDigit(s[k + 1]))

\* C5: in no-limit play a street string with an 'r' that no digit follows
\* ends the replay with a fatal error.
C5_Original ==
  (/\ game_type = "N"
   /\ \E k \in 1..Len(actions_by_round) : MalformedRaise(actions_by_round[k]))
  => pc = "crashed"

\* the players credited with collecting from the pot
Credited == {LinesOf({"collected"})[k].player : k \in 1..Len(LinesOf({"collected"}))}

\* the players with a strictly positive net result
Positive == {i \in Idx : results[i] > 0}

\* every "collected" line is an even share of the pot among n players
EvenShares(n) ==
  /\ Len(LinesOf({"collected"})) = n
  /\ \A k \in 1..Len(LinesOf({"collected"})) :
       LET a == LinesOf({"collected"})[k].amt
       IN a.num * n = PotBefore * a.den

\* C6: at a showdown the players credited are those with a strictly
\* positive net result, or the unfolded players if no result is strictly
\* positive, and the pot is split evenly among them (stated for limit
\* records whose calls, bets and raises are valid).
C6_Original ==
  (pc = "done" /\ PlayersLeft >= 2 /\ ValidWagers /\ game_type = "L") =>
    LET expected == IF Positive # {} THEN Positive ELSE Unfolded
    IN Credited = expected /\ EvenShares(Cardinality(expected))

\* C7: in an uncontested hand the pot is awarded, and the uncalled bet
\* returned, to the single unfolded player.
C7_Original ==
  (pc = "done" /\ PlayersLeft = 1) =>
    \A k \in 1..Len(LinesOf({"collected", "uncalled"})) :
      LinesOf({"collected", "uncalled"})[k].player \in Unfolded

\* the replay of STATE:1:cc/cc/cc/cc:...:1.0|-1.0:P1|P2 at big blind 10 is
\* complete
FixtureDone ==
  /\ OnFixture
  /\ Len(actions_by_round) = MaxStreets
  /\ pc = "done"
  /\ results = (0 :> 1 @@ 1 :> -1)

\* the fixture posts $5 and $10, shows both hands and awards p to P1
FixtureOutcome(p) ==
  /\ LinesOf({"posts small blind"}) = <<Line("posts small blind", 1, Amt(5, 1), "")>>
  /\ LinesOf({"posts big blind"}) = <<Line("posts big blind", 0, Amt(10, 1), "")>>
  /\ {LinesOf({"shows"})[k] : k \in 1..Len(LinesOf({"shows"}))}
       = {Line("shows", 0, NoAmt, "AhKs"), Line("shows", 1, NoAmt, "QdQc")}
  /\ LinesOf({"collected"}) = <<Line("collected", 0, Amt(p, 1), "")>>

\* C8 as stated: the heads-up limit fixture posts a $5 small blind and a
\* $10 big blind, shows both players' hole cards and awards a pot of $40
\* entirely to P1.
C8_Original == FixtureDone => FixtureOutcome(40)

\* C8 as amended: the heads-up limit fixture posts a $5 small blind and a
\* $10 big blind, shows both players' hole cards and awards a pot of $20
\* entirely to P1.
C8_FixturePot20 == FixtureDone => FixtureOutcome(20)

\* the fixture has been replayed to the end
C8_Witness == FixtureDone /\ pot = 20

\* the players whose Fold line comes before any street marker
FoldedPreflop ==
  {output_string[k].player : k \in
     {k \in 1..Len(output_string) :
        /\ output_string[k].type = "folds"
        /\ \A m \in 1..k : output_string[m].type # "street"}}

\* a three-player hand played to a showdown, in which player f alone
\* folded, preflop, and the other two split the pot evenly
SplitAfterPreflopFold(f) ==
  /\ pc = "done"
  /\ N = 3
  /\ Unfolded = Idx \ {f}
  /\ f \in FoldedPreflop
  /\ ValidWagers
  /\ BetsMatched
  /\ ResultsReflect(Unfolded)

\* the SUMMARY lines of player i
SummaryOf(i) == SelectSeq(LinesOf({"summary"}), LAMBDA l : l.player = i)

\* C10: in a three-player hand where one player folds preflop and the
\* other two split the pot evenly, the SHOW DOWN block lists exactly the
\* two unfolded players, each of them is credited half the pot, and the
\* summary line of the folded player says mucked and never won, whichever
\* seat folded.
C10_SplitAfterFold ==
  \A f \in Idx :
    SplitAfterPreflopFold(f) =>
      /\ {Shown[k] : k \in 1..Len(Shown)} = Unfolded
      /\ Len(Shown) = 2
      /\ Credited = Unfolded
      /\ EvenShares(2)
      /\ Len(SummaryOf(f)) = 1
      /\ SummaryOf(f)[1].extra[3] = "mucked"

\* the big blind folded preflop and the other two split the pot
C10_Witness == SplitAfterPreflopFold(1)

\* the utg player folded preflop and the blinds split the pot
C10_WitnessUtg == SplitAfterPreflopFold(2)

\* the small blind folded preflop and the other two split an odd pot
C10_WitnessSmallBlind ==
  /\ SplitAfterPreflopFold(0)
  /\ PotBefore % 2 = 1

\* C11: a no-limit raise token rT leaves the acting player's cumulative
\* wager (total of the closed streets plus this street's contribution) at
\* exactly T and lifts the bet level by T less the prior total, the prior
\* street contribution and the amount owed; r200 by a preflop player with
\* no prior contribution is printed "raises $200 to $200".
C11_RaiseToTotal ==
  [][(game_type = "N" /\ AtToken({"r"})) =>
       LET p == current_player
           T == Token[2]
           owed == bet_this_round - wagered_this_round[p]
       IN /\ wagered_total[p] + wagered_this_round'[p] = T
          /\ bet_this_round' - bet_this_round
               = T - wagered_total[p] - wagered_this_round[p] - owed
          /\ (round = 0 /\ wagered_this_round[p] = 0 /\ T = 200) =>
               output_string' = Append(output_string,
                                       Line("raises", p, Amt(200, 1), 200))
    ]_vars

\* the utg player of a three-handed no-limit hand has just raised to 200
C11_Witness ==
  /\ game_type = "N"
  /\ round = 0
  /\ output_string # <<>>
  /\ output_string[Len(output_string)]
       = Line("raises", positions.utg, Amt(200, 1), 200)
  /\ wagered_total[positions.utg] + wagered_this_round[positions.utg] = 200

\* the street string being replayed, or last read
LastStreet == actions_by_round[Len(actions_by_round)]

\* every digit of s belongs to the digit run of an 'r'
NoStrayDigit(s) ==
  \A k \in 1..Len(s) :
    IsDigit(s[k]) => (k > 1 /\ (s[k - 1] = "r" \/ IsDigit(s[k - 1])))

RECURSIVE RunEnd(_, _)
\* the index of the last digit of the maximal digit run starting at k + 1
RunEnd(s, k) ==
  IF k < Len(s) /\ IsDigit(s[k + 1]) THEN RunEnd(s, k + 1) ELSE k

RECURSIVE RunValue(_, _, _)
\* the decimal value of the digits s[a..b]
RunValue(s, a, b) ==
  IF a > b THEN 0 ELSE RunValue(s, a, b - 1) * 10 + DigitVal(s[b])

RECURSIVE TokensExpected(_, _)
\* one token per letter of s from index k on, each 'r' with the value of
\* the maximal digit run that follows it
TokensExpected(s, k) ==
  IF k > Len(s) THEN <<>>
  ELSE IF s[k] = "r"
    THEN <<(<<"r", RunValue(s, k + 1, RunEnd(s, k))>>)>>
         \o TokensExpected(s, RunEnd(s, k) + 1)
    ELSE <<(<<s[k]>>)>> \o TokensExpected(s, k + 1)

\* the tokenizer stopped the run
TokenizerFailed == pc = "crashed" /\ results = <<>>

\* C17: in no-limit play a street string in which digits follow every 'r'
\* (and stand nowhere else) is tokenized into one token per 'f', 'c' and
\* 'r', in order, each 'r' with the value of its maximal digit run, also
\* when the digits of the last raise run to the end of the string.
C17_Original ==
  (/\ game_type = "N"
   /\ actions_by_round # <<>>
   /\ ~MalformedRaise(LastStreet)
   /\ NoStrayDigit(LastStreet))
  => /\ ~TokenizerFailed
     /\ actions_this_round = TokensExpected(LastStreet, 1)

\* the lines of the action events
ActionTypes == {"folds", "checks", "calls", "bets", "raises"}

\* line k of the transcript is an action event
IsAction(k) == output_string[k].type \in ActionTypes

\* the players with a Fold line before line k
FoldedBefore(k) ==
  {output_string[m].player :
     m \in {m \in 1..(k - 1) : output_string[m].type = "folds"}}

\* the first player after p, in wrap-around seat order, who is not in F
NextUnfoldedAfter(p, F) ==
  LET d == CHOOSE d \in 1..N :
             /\ (p + d) % N \notin F
             /\ \A e \in 1..(d - 1) : (p + e) % N \in F
  IN (p + d) % N

\* the first player at or after p, in wrap-around seat order, not in F
FirstUnfoldedFrom(p, F) == NextUnfoldedAfter((p + N - 1) % N, F)

\* no street string of the record holds a digit outside a raise size
NoStrayDigits ==
  \A k \in 1..Len(actions_by_round) : NoStrayDigit(actions_by_round[k])

\* C18: every action event is attributed to a player who has not folded;
\* within a street the next action goes to the next unfolded player in
\* wrap-around seat order; a player who folded stays folded and no later
\* event on any street is attributed to that player.
C18_ActorsUnfolded ==
  [](
    /\ \A k \in 1..Len(output_string) :
         IsAction(k) => output_string[k].player \notin FoldedBefore(k)
    /\ NoStrayDigits =>
         \A k \in 1..(Len(output_string) - 1) :
           (IsAction(k) /\ IsAction(k + 1)) =>
             output_string[k + 1].player
               = NextUnfoldedAfter(output_string[k].player, FoldedBefore(k + 1))
    /\ \A i \in Idx :
         players_in_hand[i] <=> i \notin FoldedBefore(Len(output_string) + 1))

\* an action went to a player after the pointer passed over a folded one
C18_Witness ==
  \E k \in 1..(Len(output_string) - 1) :
    /\ IsAction(k) /\ IsAction(k + 1)
    /\ (output_string[k].player + 1) % N \in FoldedBefore(k + 1)
    /\ output_string[k + 1].player \notin FoldedBefore(k + 1)

\* line k is the first action event of its street
OpensStreet(k) == IsAction(k) /\ k > 1 /\ ~IsAction(k - 1)

\* C19: preflop the street contributions start at half the big blind for
\* the small blind and the big blind for the big blind, the bet level at
\* the big blind, and the first action goes to the utg player; on every
\* later street the contributions and the bet level start at 0 and the
\* first action goes to the first unfolded player at or after the small
\* blind (three-handed) or the big blind (heads-up).
C19_StreetSetup ==
  [](
    /\ (pc = "for" /\ actionIndex = 0) =>
         IF round = 0
           THEN /\ wagered_this_round[positions.sb] = big_blind \div 2
                /\ wagered_this_round[positions.bb] = big_blind
                /\ \A i \in Idx \ {positions.sb, positions.bb} :
                     wagered_this_round[i] = 0
                /\ bet_this_round = big_blind
           ELSE /\ \A i \in Idx : wagered_this_round[i] = 0
                /\ bet_this_round = 0
    /\ NoStrayDigits =>
         \A k \in 1..Len(output_string) :
           OpensStreet(k) =>
             output_string[k].player =
               IF output_string[k - 1].type # "street" THEN positions.utg
               ELSE FirstUnfoldedFrom(
                      IF N = 2 THEN positions.bb ELSE positions.sb,
                      FoldedBefore(k)))

\* three-handed, the small blind folded preflop and the big blind opens a
\* later street
C19_Witness ==
  /\ N = 3
  /\ round > 0
  /\ output_string # <<>>
  /\ OpensStreet(Len(output_string))
  /\ output_string[Len(output_string) - 1].type = "street"
  /\ positions.sb \in FoldedBefore(Len(output_string))
  /\ output_string[Len(output_string)].player = positions.bb

\* C20: a 'c' token of a player whose street contribution equals the bet
\* level is a check that changes no contribution, bet level or folded
\* flag; otherwise it is a call of exactly the bet level less that
\* contribution, after which the player's contribution equals the bet
\* level and no other player's contribution has changed.
C20_CheckOrCall ==
  [][AtToken({"c"}) =>
       LET p == current_player
           owed == bet_this_round - wagered_this_round[p]
       IN /\ bet_this_round' = bet_this_round
          /\ players_in_hand' = players_in_hand
          /\ wagered_total' = wagered_total
          /\ \A j \in Idx \ {p} : wagered_this_round'[j] = wagered_this_round[j]
          /\ wagered_this_round'[p] = bet_this_round
          /\ owed = 0 => wagered_this_round' = wagered_this_round
          /\ output_string' = Append(output_string,
               IF owed = 0 THEN Line("checks", p, NoAmt, "")
               ELSE Line("calls", p, Amt(owed, 1), ""))
    ]_vars

\* a call of a positive amount was followed by a check
C20_Witness ==
  /\ Len(output_string) > 1
  /\ output_string[Len(output_string)].type = "checks"
  /\ output_string[Len(output_string) - 1].type = "calls"
  /\ output_string[Len(output_string) - 1].amt.num > 0
  /\ \A i \in Unfolded : wagered_this_round[i] = bet_this_round

\* the failures process_line is specified to end with
TypedFailures ==
  {"MalformedRecord", "UnsupportedPlayerCount", "InconsistentResults",
   "InvalidStreetCount", "InconsistentStreets"}

\* C12: process_line applied to a STATE line either returns a record with
\* 2 or 3 names, as many results as names and one action string more than
\* board groups, or fails with MalformedRecord, UnsupportedPlayerCount,
\* InconsistentResults, InvalidStreetCount or InconsistentStreets, and in
\* no other way, whatever the number of '|'-groups of the card field.
C12_Original ==
  (pc = "fetched" /\ hand_history.state) =>
    IF process_line(hand_history) = "none"
      THEN /\ Len(hand_history.names) \in {2, 3}
           /\ hand_history.results = Len(hand_history.names)
           /\ hand_history.streets = hand_history.boards + 1
      ELSE /\ process_line(hand_history) \in TypedFailures
           /\ process_line(hand_history) = "MalformedRecord"
                <=> hand_history.fields # 6

C14_Original ==
  [][(pc = "fetched" /\ ~hand_history.state) =>
       /\ pc' = "loop"
       /\ UNCHANGED <<hand_counter, seat_names, output_string, output_file,
                      error>>
    ]_vars

\* the names of the "Seat i" lines of a transcript, in order
SeatsListed(t) ==
  LET l == SelectSeq(t, LAMBDA x : x.type = "seat")
  IN [k \in 1..Len(l) |-> l[k].extra]

\* the first n elements of a list, as a tuple
FirstOf(list, n) == [k \in 1..n |-> list[k - 1]]

\* C15: the seat assignment is written once, from the name order of the
\* first parsed hand, and never changes afterwards; every transcript
\* written lists the seats in that order, whatever the name order of its
\* record.
C15_SeatsWrittenOnce ==
  [][/\ hand_counter' >= hand_counter
     /\ seat_names' # seat_names =>
          /\ hand_counter = 1
          /\ seat_names = <<>>
          /\ pc = "fetched"
          /\ seat_names' = AsList(hand_history.names)
     /\ output_file' # output_file =>
          /\ hand_counter > 1 => seat_names' = seat_names
          /\ output_file' = Append(output_file, output_string')
          /\ SeatsListed(output_string')
               = FirstOf(seat_names', Len(hand_history.names))
    ]_vars

\* two hands were written, the second from a record naming the players in
\* another order than the first, and both list the seats alike
C15_Witness ==
  /\ Len(output_file) = 2
  /\ hand_counter = 3
  /\ players # seat_names
  /\ DOMAIN players = DOMAIN seat_names
  /\ SeatsListed(output_file[2]) = SeatsListed(output_file[1])
  /\ SeatsListed(output_file[1]) = FirstOf(seat_names, 2)

\* C21: an 'r' token is printed as a raise exactly when the acting player
\* owes a positive amount or the street is preflop, and as a bet
\* otherwise; either way the player's street contribution grows by the
\* amount owed plus the increment and the bet level by the increment, so
\* that the contribution then equals the new bet level.
C21_BetOrRaise ==
  [][AtToken({"r"}) =>
       LET p == current_player
           owed == bet_this_round - wagered_this_round[p]
           last == output_string'[Len(output_string')]
       IN /\ Len(output_string') = Len(output_string) + 1
          /\ last.player = p
          /\ last.type = IF owed > 0 \/ round = 0 THEN "raises" ELSE "bets"
          /\ wagered_this_round'[p] = wagered_this_round[p] + owed + current_bet'
          /\ bet_this_round' = bet_this_round + current_bet'
          /\ wagered_this_round'[p] = bet_this_round'
          /\ \A j \in Idx \ {p} : wagered_this_round'[j] = wagered_this_round[j]
    ]_vars

\* heads-up the small blind called and the big blind, owing nothing, used
\* the option: printed as a raise
C21_Witness ==
  /\ N = 2
  /\ round = 0
  /\ Len(LinesOf(ActionTypes)) = 2
  /\ LinesOf(ActionTypes)[1].type = "calls"
  /\ LinesOf(ActionTypes)[2].type = "raises"
  /\ LinesOf(ActionTypes)[2].player = positions.bb
  /\ wagered_this_round[positions.bb] = bet_this_round

\* after the preflop street a player owing nothing bet
C21_WitnessBet ==
  /\ round > 0
  /\ output_string # <<>>
  /\ output_string[Len(output_string)].type = "bets"
  /\ wagered_this_round[output_string[Len(output_string)].player]
       = bet_this_round

\* C22: in limit play every bet or raise lifts the street bet level by
\* exactly the big blind preflop and on the flop and by exactly twice the
\* big blind on the turn and river; in no-limit play the increment after
\* the street setup is the big blind preflop and 0 on later streets, and
\* stays so until a raise recomputes it.
C22_Increments ==
  [][/\ (game_type = "L" /\ AtToken({"r"})) =>
          bet_this_round' - bet_this_round
            = IF round = 0 \/ round = 1 THEN big_blind ELSE 2 * big_blind
     /\ (game_type = "N" /\ pc = "street" /\ pc' = "for") =>
          current_bet' = IF round = 0 THEN big_blind ELSE 0
     /\ (game_type = "N" /\ pc \in {"for", "next"} /\ ~AtToken({"r"})) =>
          current_bet' = current_bet
    ]_vars

\* in limit play a bet on the turn or river, of twice the big blind
C22_Witness ==
  /\ game_type = "L"
  /\ round >= 2
  /\ output_string # <<>>
  /\ output_string[Len(output_string)]
       = Line("bets", output_string[Len(output_string)].player,
              Amt(2 * big_blind, 1), "")
  /\ bet_this_round = 2 * big_blind

\* in no-limit play a later street was set up and a player checked with
\* the increment still 0
C22_WitnessNoLimit ==
  /\ game_type = "N"
  /\ round >= 1
  /\ pc = "for"
  /\ actionIndex >= 1
  /\ current_bet = 0
  /\ output_string[Len(output_string)].type = "checks"

\* two printed amounts are the same number
SameAmount(a, b) == a.num * b.den = b.num * a.den

\* the "collected" lines of player i
CollectedBy(i) == SelectSeq(LinesOf({"collected"}), LAMBDA l : l.player = i)

\* a valid hand shown down by two players who split the pot, the results
\* being those of the replayed hand
SplitByTwo ==
  /\ pc = "done"
  /\ PlayersLeft = 2
  /\ Len(winners) = 2
  /\ ValidWagers
  /\ BetsMatched
  /\ ResultsReflect(Unfolded)

\* C23: when two winners split the pot, the amount of each winner's
\* SUMMARY line ("won ($x)") is the amount of that winner's "collected"
\* line, half the pot, for every pot, odd ones included.
C23_Original ==
  SplitByTwo =>
    \A k \in 1..2 :
      /\ Len(CollectedBy(winners[k])) = 1
      /\ SameAmount(CollectedBy(winners[k])[1].amt, Amt(PotBefore, 2))
      /\ \A m \in 1..Len(SummaryOf(winners[k])) :
           /\ SummaryOf(winners[k])[m].extra[3] = "won"
           /\ SameAmount(SummaryOf(winners[k])[m].amt,
                         CollectedBy(winners[k])[1].amt)

====
